---------------------------- MODULE Spec2Model ----------------------------
(***************************************************************************)
(* Face-recognition attendance system: src/main.py (embedding variant,     *)
(* class FaceRecognitionAttendance) and src/main2.py (trained-classifier   *)
(* variant, class LightweightFaceAttendance).                              *)
(*                                                                         *)
(* Text is modelled as sequences of one-character strings, so that the     *)
(* csv formatting of a row and the substring scan of mark_attendance are   *)
(* computed as the code computes them.  A face descriptor is an integer    *)
(* on a line, in hundredths of the distance unit: the Euclidean distance   *)
(* of two descriptors is the absolute difference.                          *)
(***************************************************************************)
EXTENDS Integers, Sequences, FiniteSets, TLC

VARIABLES
    variant,                \* "embedding" (main.py) or "lbph" (main2.py)
    pc,                     \* "off", "menu", "run", "add"
    clock,                  \* datetime.now(), in ticks since the first day
    attendance_log,         \* the file attendance.csv: NoFile or its rows
    database,               \* the directory employees/: file name -> image
    known_face_encodings,   \* main.py: self.known_face_encodings
    known_face_names,       \* main.py: self.known_face_names
    employee_ids,           \* main2.py: self.employee_ids (label -> name)
    recognizer,             \* main2.py: self.recognizer (its training set)
    model_file,             \* models/face_recognizer.yml
    id_map_file,            \* models/employee_ids.csv: NoFile or its lines
    gpio_setup,             \* the two output channels are set up
    led,                    \* level of led_pin
    buzzer,                 \* level of buzzer_pin
    camera,                 \* "none", "open": the camera handle of a loop
    windows,                \* a display window is open
    cur_name,               \* the name argument of the running add_employee
    last_frame,             \* observer: the last iteration of the last run(), until
                            \* the next operation starts
    last_add,               \* observer: "NoFaceDetected" after such a capture attempt
    last_enroll,            \* observer: last successful enrollment of the session
    last_exit,              \* observer: how the last run() ended, until the next
                            \* operation starts
    match_in,               \* input of the embedding matcher (SpecMatch)
    match_out               \* its decision (SpecMatch)

vars == <<variant, pc, clock, attendance_log, database, known_face_encodings,
          known_face_names, employee_ids, recognizer, model_file, id_map_file,
          gpio_setup, led, buzzer, camera, windows, cur_name, last_frame,
          last_add, last_enroll, last_exit, match_in, match_out>>

-----------------------------------------------------------------------------
(* Bounds of the model *)

\* the clock stops after this many ticks
MaxClock == 2
\* ticks of the clock per calendar day
TicksPerDay == 2
\* the recognition loop is not entered with more data rows than this
MaxLog == 2
\* add_employee is not started when it would lead to more templates in
\* memory (main.py) or more image files (main2.py) than this
MaxKnown == 2
\* faces detected in one frame
MaxFaces == 1
\* templates of the matcher's input in SpecMatch
MaxEnrolled == 3

(* Program constants *)

\* main.py:137 tolerance=0.6, in hundredths
Tolerance == 60
\* main2.py:199 confidence < 70
ConfidenceThreshold == 70

-----------------------------------------------------------------------------
(* Text *)

\* a file: whether it exists, and its rows
NoFile == [exists |-> FALSE, rows |-> <<>>]
FileOf(rows) == [exists |-> TRUE, rows |-> rows]

\* no name: no add_employee running, or a face whose recognition raised
NoName == <<>>

QUOTE == "\""
COMMA == ","
CR == "\r"
LF == "\n"

Al == <<"A", "l">>
Ali == <<"A", "l", "i">>
BQo == <<"B", QUOTE, "o">>
DoeJ == <<"D", COMMA, "J">>
Unknown == <<"U", "n", "k", "n", "o", "w", "n">>

\* the names typed at the menu or found as file stems
Names == {Al, Ali, BQo}

\* Python's  pat in s
Contains(pat, s) ==
    \E i \in 0..(Len(s) - Len(pat)) : SubSeq(s, i + 1, i + Len(pat)) = pat

IsPrefix(s, t) == Len(s) <= Len(t) /\ SubSeq(t, 1, Len(s)) = s

RECURSIVE Flatten(_)
Flatten(ss) == IF ss = <<>> THEN <<>> ELSE Head(ss) \o Flatten(Tail(ss))

DigitChars == <<"0", "1", "2", "3", "4", "5", "6", "7", "8", "9">>

\* %d, %H, %M, %S of strftime: two digits, zero padded
TwoDigits(n) == <<DigitChars[((n \div 10) % 10) + 1], DigitChars[(n % 10) + 1]>>

\* str(int) of a label
RECURSIVE IntStr(_)
IntStr(n) == IF n < 10 THEN <<DigitChars[n + 1]>>
             ELSE IntStr(n \div 10) \o <<DigitChars[(n % 10) + 1]>>

\* now.strftime("%Y-%m-%d"): the clock starts on 2024-01-01
strftime_date(t) ==
    <<"2", "0", "2", "4", "-", "0", "1", "-">> \o TwoDigits((t \div TicksPerDay) + 1)

\* now.strftime("%H:%M:%S"): one tick is one second after 09:00:00
strftime_time(t) ==
    <<"0", "9", ":", "0", "0", ":">> \o TwoDigits(t % TicksPerDay)

\* csv.writer, QUOTE_MINIMAL: a field holding the delimiter, the quote
\* character or a line break is quoted, its quote characters doubled
csv_field(f) ==
    IF \E i \in 1..Len(f) : f[i] \in {COMMA, QUOTE, CR, LF}
    THEN <<QUOTE>>
         \o Flatten([i \in 1..Len(f) |-> IF f[i] = QUOTE THEN <<QUOTE, QUOTE>> ELSE <<f[i]>>])
         \o <<QUOTE>>
    ELSE f

\* writer.writerow(fields): the row as written to the file
writerow(fields) ==
    Flatten([i \in 1..Len(fields) |->
                IF i = 1 THEN csv_field(fields[i]) ELSE <<COMMA>> \o csv_field(fields[i])])
    \o <<CR, LF>>

\* for line in file, text mode: "\r\n" is read as "\n"
text_line(row) ==
    IF Len(row) >= 2 /\ SubSeq(row, Len(row) - 1, Len(row)) = <<CR, LF>>
    THEN SubSeq(row, 1, Len(row) - 2) \o <<LF>>
    ELSE row

Header == writerow(<<<<"N", "a", "m", "e">>, <<"D", "a", "t", "e">>, <<"T", "i", "m", "e">>>>)


-----------------------------------------------------------------------------
(* Feedback signal and attendance ledger (the same code in both variants) *)

HIGH == 1
LOW == 0

\* the GPIO.output calls of success_indication, in order
PulseWrites ==
    << [pin |-> "led", level |-> HIGH], [pin |-> "buzzer", level |-> HIGH],
       [pin |-> "led", level |-> LOW], [pin |-> "buzzer", level |-> LOW] >>

\* level of a pin after a sequence of GPIO.output calls
LevelAfter(pin, before, writes) ==
    LET idx == {i \in 1..Len(writes) : writes[i].pin = pin}
    IN IF idx = {} THEN before
       ELSE writes[CHOOSE i \in idx : \A j \in idx : j <= i].level

\* success_indication: GPIO.output on a channel that is not set up (after
\* GPIO.cleanup()) raises RuntimeError at the first call
success_indication(setup, l, b) ==
    IF setup
    THEN [raised |-> FALSE, pulse |-> PulseWrites,
          led |-> LevelAfter("led", l, PulseWrites),
          buzzer |-> LevelAfter("buzzer", b, PulseWrites)]
    ELSE [raised |-> TRUE, pulse |-> <<>>, led |-> l, buzzer |-> b]

\* the scan of mark_attendance: name in line and date_str in line
already_marked(log, name, date_str) ==
    /\ log.exists
    /\ \E i \in 1..Len(log.rows) :
          /\ Contains(name, text_line(log.rows[i]))
          /\ Contains(date_str, text_line(log.rows[i]))

\* mark_attendance(name) at clock t: the new log, the outcome ("Marked" for
\* True, "AlreadyMarkedToday" for False, "RuntimeError" when
\* success_indication raises), the row appended and the pulse delivered
mark_attendance(name, log, t, setup, l, b) ==
    LET date_str == strftime_date(t)
        time_str == strftime_time(t)
        row == writerow(<<name, date_str, time_str>>)
        ind == success_indication(setup, l, b)
    IN IF ~already_marked(log, name, date_str)
       THEN [log |-> FileOf(log.rows \o <<row>>),
             name |-> name, date |-> date_str, time |-> time_str,
             ret |-> IF ind.raised THEN "RuntimeError" ELSE "Marked",
             appended |-> <<row>>, pulse |-> ind.pulse,
             led |-> ind.led, buzzer |-> ind.buzzer]
       ELSE [log |-> log, name |-> name, date |-> date_str, time |-> time_str,
             ret |-> "AlreadyMarkedToday",
             appended |-> <<>>, pulse |-> <<>>, led |-> l, buzzer |-> b]

\* what the observer keeps of one call
CallRecord(r, rows_before) ==
    [name |-> r.name, date |-> r.date, time |-> r.time, ret |-> r.ret,
     appended |-> r.appended, pulse |-> r.pulse, rows_before |-> rows_before]

-----------------------------------------------------------------------------
(* Embedding matcher: main.py, run, lines 136-146 *)

Abs(x) == IF x < 0 THEN -x ELSE x

\* face_recognition.face_distance: the distance to every known encoding
face_distance(encodings, q) == [i \in 1..Len(encodings) |-> Abs(encodings[i] - q)]

\* compare_faces with the comparison strict: a distance equal to the
\* tolerance is no match
compare_faces_strict(encodings, q, tolerance) ==
    [i \in 1..Len(encodings) |-> face_distance(encodings, q)[i] < tolerance]

\* face_recognition.compare_faces: list(face_distance(...) <= tolerance)
compare_faces(encodings, q, tolerance) ==
    [i \in 1..Len(encodings) |-> face_distance(encodings, q)[i] <= tolerance]

\* np.argmin: the first index of the minimum
argmin(ds) ==
    CHOOSE i \in 1..Len(ds) :
        /\ \A j \in 1..Len(ds) : ds[i] <= ds[j]
        /\ \A j \in 1..(i - 1) : ds[j] > ds[i]

\* lines 137-144: the index of the template accepted (0: none) and the name
match_face(encodings, names, q) ==
    LET matches == compare_faces(encodings, q, Tolerance)
        face_distances == face_distance(encodings, q)
    IN IF Len(face_distances) > 0
       THEN LET best_match_index == argmin(face_distances)
            IN IF matches[best_match_index]
               THEN [index |-> best_match_index, name |-> names[best_match_index]]
               ELSE [index |-> 0, name |-> Unknown]
       ELSE [index |-> 0, name |-> Unknown]

-----------------------------------------------------------------------------
(* Trained-classifier matcher: main2.py, run, lines 194-214 *)

\* recognizer.predict: an untrained LBPH recognizer raises cv2.error; a
\* trained one returns the label of the nearest training sample (the first
\* of several at the same distance) and that distance
predict(rec, q) ==
    IF rec = <<>>
    THEN [raised |-> TRUE, label |-> 0, confidence |-> 0]
    ELSE LET ds == [i \in 1..Len(rec) |-> Abs(rec[i].face - q)]
             k == argmin(ds)
         IN [raised |-> FALSE, label |-> rec[k].label, confidence |-> ds[k]]

\* self.employee_ids.get(id_num, "Unknown")
ids_get(ids, id_num) == IF id_num \in DOMAIN ids THEN ids[id_num] ELSE Unknown

-----------------------------------------------------------------------------
(* Images, frames and the files of the database directory *)

\* the face descriptors of the people in front of the camera
Faces == {0, 90}

\* an image or a frame is the sequence of the faces detected in it
\* (face_recognition.face_encodings, face_cascade.detectMultiScale)
Frames == UNION {[1..k -> Faces] : k \in 0..MaxFaces}

File(stem, ext) == [stem |-> stem, ext |-> ext]

\* the directory contents found at the first start: nothing; two images
\* of one stem; two employees and an image without a face; an employee
\* whose name holds a comma
InitDirs ==
    { <<>>,
      (File(Al, "jpg") :> <<0>>) @@ (File(Al, "png") :> <<90>>),
      (File(Al, "jpg") :> <<0>>) @@ (File(Ali, "jpg") :> <<90>>)
          @@ (File(BQo, "jpg") :> <<>>),
      (File(DoeJ, "jpg") :> <<0>>) }

\* os.listdir: the entries in an arbitrary order
listdir(db) ==
    LET S == DOMAIN db
    IN {o \in [1..Cardinality(S) -> S] : \A i, j \in 1..Cardinality(S) : o[i] = o[j] => i = j}

\* dict assignment d[k] = v
dict_set(d, k, v) == [x \in (DOMAIN d) \cup {k} |-> IF x = k THEN v ELSE d[x]]

\* cv2.imwrite(filename, frame)
imwrite(db, file, image) == dict_set(db, file, image)

\* os.remove(filename)
remove(db, file) == [x \in (DOMAIN db) \ {file} |-> db[x]]

\* filename.endswith(".jpg") or filename.endswith(".png")
is_image(file) == file.ext \in {"jpg", "png"}

-----------------------------------------------------------------------------
(* Identity store, embedding variant: main.py, load_known_faces *)

\* lines 41-60 over the entries in listdir order, appending to the two lists
RECURSIVE load_known_faces(_, _, _, _)
load_known_faces(db, order, encodings, names) ==
    IF order = <<>> THEN [encodings |-> encodings, names |-> names]
    ELSE LET filename == Head(order)
             face_encodings == db[filename]
         IN IF is_image(filename) /\ Len(face_encodings) > 0
            THEN load_known_faces(db, Tail(order),
                                  Append(encodings, face_encodings[1]),
                                  Append(names, filename.stem))
            ELSE load_known_faces(db, Tail(order), encodings, names)

-----------------------------------------------------------------------------
(* Identity store, trained-classifier variant: main2.py *)

\* lines 78-105: the label table and the training pairs, in listdir order
RECURSIVE scan_images(_, _, _, _, _)
scan_images(db, order, next_id, id_map, samples) ==
    IF order = <<>> THEN [id_map |-> id_map, samples |-> samples]
    ELSE LET filename == Head(order)
             detected_faces == db[filename]
         IN IF is_image(filename)
            THEN scan_images(db, Tail(order), next_id + 1,
                             dict_set(id_map, next_id, filename.stem),
                             IF Len(detected_faces) > 0
                             THEN Append(samples, [face |-> detected_faces[1], label |-> next_id])
                             ELSE samples)
            ELSE scan_images(db, Tail(order), next_id, id_map, samples)

\* the labels of a table in increasing order (a dict keeps insertion order,
\* and train_model inserts 1, 2, ...)
RECURSIVE sorted_keys(_)
sorted_keys(S) ==
    IF S = {} THEN <<>>
    ELSE LET m == CHOOSE x \in S : \A y \in S : x <= y
         IN <<m>> \o sorted_keys(S \ {m})

\* lines 109-111: file.write(f"{emp_id},{name}\n") for every entry
write_id_map(id_map) ==
    LET ks == sorted_keys(DOMAIN id_map)
    IN [i \in 1..Len(ks) |-> IntStr(ks[i]) \o <<COMMA>> \o id_map[ks[i]] \o <<LF>>]

\* train_model: the table is replaced and written; the recognizer is
\* trained and saved only when some face was found
train_model(db, order, rec, mfile) ==
    LET scan == scan_images(db, order, 1, <<>>, <<>>)
    IN [employee_ids |-> scan.id_map,
        id_map_file |-> FileOf(write_id_map(scan.id_map)),
        recognizer |-> IF Len(scan.samples) > 0 THEN scan.samples ELSE rec,
        model_file |-> IF Len(scan.samples) > 0 THEN FileOf(scan.samples) ELSE mfile]

Whitespace == {" ", "\t", CR, LF}

\* str.strip()
RECURSIVE strip(_)
strip(s) ==
    IF s = <<>> THEN s
    ELSE IF Head(s) \in Whitespace THEN strip(Tail(s))
    ELSE IF s[Len(s)] \in Whitespace THEN strip(SubSeq(s, 1, Len(s) - 1))
    ELSE s

\* str.split(',')
RECURSIVE split(_, _)
split(s, cur) ==
    IF s = <<>> THEN <<cur>>
    ELSE IF Head(s) = COMMA THEN <<cur>> \o split(Tail(s), <<>>)
    ELSE split(Tail(s), Append(cur, Head(s)))

DigitValue(c) == (CHOOSE i \in 1..10 : DigitChars[i] = c) - 1

\* int(emp_id) of a string of digits
RECURSIVE parse_int(_, _)
parse_int(s, acc) ==
    IF s = <<>> THEN acc ELSE parse_int(Tail(s), 10 * acc + DigitValue(Head(s)))

\* lines 54-60: the table read back from models/employee_ids.csv
RECURSIVE read_id_map(_, _)
read_id_map(lines, ids) ==
    IF lines = <<>> THEN ids
    ELSE LET parts == split(strip(Head(lines)), <<>>)
         IN IF strip(Head(lines)) # <<>> /\ Len(parts) = 2
            THEN read_id_map(Tail(lines), dict_set(ids, parse_int(parts[1], 0), parts[2]))
            ELSE read_id_map(Tail(lines), ids)

\* load_or_train_model: both files present: read them; else train
load_or_train_model(db, order, rec, mfile, idfile) ==
    IF mfile.exists /\ idfile.exists
    THEN [employee_ids |-> read_id_map(idfile.rows, <<>>),
          id_map_file |-> idfile,
          recognizer |-> mfile.rows,
          model_file |-> mfile]
    ELSE train_model(db, order, rec, mfile)

-----------------------------------------------------------------------------
(* One iteration of the recognition loop: the faces of a frame in order *)

\* the loop variables threaded through the faces of one frame
FrameStart(log, l, b) ==
    [log |-> log, led |-> l, buzzer |-> b, calls |-> <<>>, resolved |-> <<>>,
     exc |-> FALSE]

AfterCall(st, r, name, exc) ==
    [log |-> r.log, led |-> r.led, buzzer |-> r.buzzer,
     calls |-> Append(st.calls, CallRecord(r, Len(st.log.rows))),
     resolved |-> Append(st.resolved, name), exc |-> exc]

\* main.py lines 129-146: an exception of mark_attendance leaves the loop
RECURSIVE process_faces_embedding(_, _)
process_faces_embedding(faces, st) ==
    IF faces = <<>> \/ st.exc THEN st
    ELSE LET m == match_face(known_face_encodings, known_face_names, Head(faces))
         IN IF m.index > 0
            THEN LET r == mark_attendance(m.name, st.log, clock, gpio_setup, st.led, st.buzzer)
                 IN process_faces_embedding(Tail(faces),
                        AfterCall(st, r, m.name, r.ret = "RuntimeError"))
            ELSE process_faces_embedding(Tail(faces),
                        [st EXCEPT !.resolved = Append(@, Unknown)])

\* process_faces_lbph without the try/except of lines 194 and 213: the
\* cv2.error of predict leaves the loop
RECURSIVE process_faces_lbph_uncaught(_, _)
process_faces_lbph_uncaught(faces, st) ==
    IF faces = <<>> \/ st.exc THEN st
    ELSE LET p == predict(recognizer, Head(faces))
         IN IF p.raised
            THEN process_faces_lbph_uncaught(Tail(faces),
                     [st EXCEPT !.resolved = Append(@, NoName), !.exc = TRUE])
            ELSE IF p.confidence < ConfidenceThreshold
            THEN LET name == ids_get(employee_ids, p.label)
                     r == mark_attendance(name, st.log, clock, gpio_setup, st.led, st.buzzer)
                 IN process_faces_lbph_uncaught(Tail(faces), AfterCall(st, r, name, FALSE))
            ELSE process_faces_lbph_uncaught(Tail(faces),
                     [st EXCEPT !.resolved = Append(@, Unknown)])

\* main2.py lines 187-214: every exception of predict or of mark_attendance
\* is caught and printed; a face whose recognition raised gets no name
RECURSIVE process_faces_lbph(_, _)
process_faces_lbph(faces, st) ==
    IF faces = <<>> \/ st.exc THEN st
    ELSE LET p == predict(recognizer, Head(faces))
         IN IF p.raised
            THEN process_faces_lbph(Tail(faces), [st EXCEPT !.resolved = Append(@, NoName)])
            ELSE IF p.confidence < ConfidenceThreshold
            THEN LET name == ids_get(employee_ids, p.label)
                     r == mark_attendance(name, st.log, clock, gpio_setup, st.led, st.buzzer)
                 IN process_faces_lbph(Tail(faces), AfterCall(st, r, name, FALSE))
            ELSE process_faces_lbph(Tail(faces), [st EXCEPT !.resolved = Append(@, Unknown)])

\* what the observer keeps of an iteration: the faces, the name each was
\* resolved to, the mark_attendance calls, the rows the log grew by, whether
\* the store was empty, the day, and how the iteration ended
FrameRecord(faces, st, empty, key) ==
    [faces |-> faces, resolved |-> st.resolved, calls |-> st.calls,
     appended |-> Len(st.log.rows) - Len(attendance_log.rows),
     empty_store |-> empty, date |-> strftime_date(clock),
     after |-> IF st.exc THEN "raised" ELSE IF key = "q" THEN "quit" ELSE "next_frame"]

NoFrame ==
    [faces |-> <<>>, resolved |-> <<>>, calls |-> <<>>, appended |-> 0,
     empty_store |-> FALSE, date |-> <<>>, after |-> "none"]

ExitRecord(cause, raised, cam, win, gpio) ==
    [cause |-> cause, raised |-> raised, camera_released |-> cam,
     windows_destroyed |-> win, gpio_cleaned |-> gpio]

Keys == {"q", "c", "other"}

NoExit == ExitRecord("none", FALSE, TRUE, TRUE, TRUE)
NoEnroll == [name |-> NoName, face |-> -1]
NoMatch == [index |-> -1, name |-> NoName]
NoQuery == [encodings |-> <<>>, names |-> <<>>, q |-> -1]

-----------------------------------------------------------------------------
(* State *)

observers == <<last_frame, last_add, last_enroll, last_exit>>
match_vars == <<match_in, match_out>>
store_vars == <<known_face_encodings, known_face_names, employee_ids, recognizer>>
disk_vars == <<database, model_file, id_map_file>>
gpio_vars == <<gpio_setup, led, buzzer>>

Init ==
    /\ variant \in {"embedding", "lbph"}
    /\ pc = "off"
    /\ clock = 0
    /\ attendance_log = NoFile
    /\ database \in InitDirs
    /\ known_face_encodings = <<>>
    /\ known_face_names = <<>>
    /\ employee_ids = <<>>
    /\ recognizer = <<>>
    /\ model_file = NoFile
    /\ id_map_file = NoFile
    /\ gpio_setup = FALSE
    /\ led = LOW
    /\ buzzer = LOW
    /\ camera = "none"
    /\ windows = FALSE
    /\ cur_name = NoName
    /\ last_frame = NoFrame
    /\ last_add = "None"
    /\ last_enroll = NoEnroll
    /\ last_exit = NoExit
    /\ match_in = NoQuery
    /\ match_out = NoMatch

\* the process is gone: its objects with it, the camera closed by the system
ProcessEnds ==
    /\ pc' = "off"
    /\ known_face_encodings' = <<>>
    /\ known_face_names' = <<>>
    /\ employee_ids' = <<>>
    /\ recognizer' = <<>>
    /\ camera' = "none"
    /\ windows' = FALSE
    /\ cur_name' = NoName
    /\ last_enroll' = NoEnroll
    /\ last_add' = "None"

\* the finally block of run: camera.release() / picam2.stop(),
\* cv2.destroyAllWindows(), GPIO.cleanup()
RunFinally ==
    /\ camera' = "none"
    /\ windows' = FALSE
    /\ gpio_setup' = FALSE
    /\ led' = LOW
    /\ buzzer' = LOW

\* the finally block of add_employee
AddFinally ==
    /\ camera' = "none"
    /\ windows' = FALSE

\* datetime.now() moves on.  The clock is read only by mark_attendance, so
\* the time that passes elsewhere shows as ticks before the next frame.
Tick ==
    /\ pc = "run"
    /\ clock < MaxClock
    /\ clock' = clock + 1
    /\ UNCHANGED <<variant, pc, attendance_log, disk_vars, store_vars, gpio_vars,
                   camera, windows, cur_name, observers, match_vars>>

\* __init__ (main.py 11-35, main2.py 12-41): GPIO set up, the log created
\* with its header when it does not exist, the store loaded
Construct ==
    /\ pc = "off"
    /\ pc' = "menu"
    /\ gpio_setup' = TRUE
    /\ attendance_log' = IF attendance_log.exists THEN attendance_log
                                                       ELSE FileOf(<<Header>>)
    /\ \E order \in listdir(database) :
          IF variant = "embedding"
          THEN LET loaded == load_known_faces(database, order, <<>>, <<>>)
               IN /\ known_face_encodings' = loaded.encodings
                  /\ known_face_names' = loaded.names
                  /\ UNCHANGED <<employee_ids, recognizer, model_file, id_map_file>>
          ELSE LET m == load_or_train_model(database, order, <<>>, model_file, id_map_file)
               IN /\ employee_ids' = m.employee_ids
                  /\ recognizer' = m.recognizer
                  /\ model_file' = m.model_file
                  /\ id_map_file' = m.id_map_file
                  /\ UNCHANGED <<known_face_encodings, known_face_names>>
    /\ last_frame' = NoFrame
    /\ last_enroll' = NoEnroll
    /\ last_add' = "None"
    /\ last_exit' = NoExit
    /\ UNCHANGED <<variant, clock, database, led, buzzer, camera, windows, cur_name,
                   match_vars>>

\* menu choice Exit
Exit ==
    /\ pc = "menu"
    /\ ProcessEnds
    /\ last_frame' = NoFrame
    /\ last_exit' = NoExit
    /\ UNCHANGED <<variant, clock, attendance_log, disk_vars, gpio_vars, match_vars>>

-----------------------------------------------------------------------------
(* run, embedding variant: main.py 102-167 *)

\* lines 105-110: cv2.VideoCapture(0) and camera.set do not raise
RunStartE ==
    /\ variant = "embedding"
    /\ pc = "menu"
    /\ pc' = "run"
    /\ camera' = "open"
    /\ last_frame' = NoFrame
    /\ last_exit' = NoExit
    /\ last_add' = "None"
    /\ UNCHANGED <<variant, clock, attendance_log, disk_vars, store_vars, gpio_vars,
                   windows, cur_name, last_enroll, match_vars>>

\* lines 115-118: camera.read() returns ret = False: break, then finally
RunCaptureFailureE ==
    /\ variant = "embedding"
    /\ pc = "run"
    /\ pc' = "menu"
    /\ RunFinally
    /\ last_exit' = ExitRecord("capture_failure", FALSE, TRUE, TRUE, TRUE)
    /\ last_frame' = NoFrame
    /\ UNCHANGED <<variant, clock, attendance_log, disk_vars, store_vars, cur_name,
                   last_add, last_enroll, match_vars>>

\* lines 115-161 with a frame delivered: the faces processed, the frame
\* shown, the key polled.  An exception of mark_attendance runs the finally
\* block and, caught nowhere, ends the process.
RunFrameE(frame, key) ==
    /\ variant = "embedding"
    /\ pc = "run"
    /\ Len(attendance_log.rows) <= MaxLog
    /\ LET st == process_faces_embedding(frame, FrameStart(attendance_log, led, buzzer))
       IN /\ attendance_log' = st.log
          /\ last_frame' = FrameRecord(frame, st, known_face_encodings = <<>>, key)
          /\ IF st.exc
             THEN /\ ProcessEnds
                  /\ gpio_setup' = FALSE
                  /\ led' = LOW
                  /\ buzzer' = LOW
                  /\ last_exit' = ExitRecord("exception", TRUE, TRUE, TRUE, TRUE)
                  /\ UNCHANGED <<variant, clock, disk_vars, match_vars>>
             ELSE IF key = "q"
             THEN /\ pc' = "menu"
                  /\ RunFinally
                  /\ last_exit' = ExitRecord("quit", FALSE, TRUE, TRUE, TRUE)
                  /\ UNCHANGED <<variant, clock, disk_vars, store_vars, cur_name, last_add,
                                 last_enroll, match_vars>>
             ELSE /\ windows' = TRUE
                  /\ led' = st.led
                  /\ buzzer' = st.buzzer
                  /\ UNCHANGED <<variant, pc, clock, disk_vars, store_vars, gpio_setup,
                                 camera, cur_name, last_add, last_enroll, last_exit,
                                 match_vars>>

-----------------------------------------------------------------------------
(* run, trained-classifier variant: main2.py 159-230 *)

\* lines 162-165, outside the try block
RunStartL ==
    /\ variant = "lbph"
    /\ pc = "menu"
    /\ pc' = "run"
    /\ camera' = "open"
    /\ last_frame' = NoFrame
    /\ last_exit' = NoExit
    /\ last_add' = "None"
    /\ UNCHANGED <<variant, clock, attendance_log, disk_vars, store_vars, gpio_vars,
                   windows, cur_name, last_enroll, match_vars>>

\* lines 162-165: Picamera2() raises (nothing acquired yet), or configure()
\* or start() raises with the camera opened; no finally block covers them,
\* and the exception ends the process
RunStartFailL(at) ==
    /\ variant = "lbph"
    /\ pc = "menu"
    /\ ProcessEnds
    /\ last_frame' = NoFrame
    /\ last_exit' = ExitRecord("startup_exception", TRUE, at = "Picamera2", TRUE, ~gpio_setup)
    /\ UNCHANGED <<variant, clock, attendance_log, disk_vars, gpio_vars, match_vars>>

\* line 173: picam2.capture_array() raises: finally, then the process ends
RunCaptureFailureL ==
    /\ variant = "lbph"
    /\ pc = "run"
    /\ ProcessEnds
    /\ gpio_setup' = FALSE
    /\ led' = LOW
    /\ buzzer' = LOW
    /\ last_exit' = ExitRecord("capture_failure", TRUE, TRUE, TRUE, TRUE)
    /\ last_frame' = NoFrame
    /\ UNCHANGED <<variant, clock, attendance_log, disk_vars, match_vars>>

\* lines 173-224 with a frame delivered
RunFrameL(frame, key) ==
    /\ variant = "lbph"
    /\ pc = "run"
    /\ Len(attendance_log.rows) <= MaxLog
    /\ LET st == process_faces_lbph(frame, FrameStart(attendance_log, led, buzzer))
       IN /\ attendance_log' = st.log
          /\ last_frame' = FrameRecord(frame, st, recognizer = <<>>, key)
          /\ IF st.exc
             THEN /\ ProcessEnds
                  /\ gpio_setup' = FALSE
                  /\ led' = LOW
                  /\ buzzer' = LOW
                  /\ last_exit' = ExitRecord("exception", TRUE, TRUE, TRUE, TRUE)
                  /\ UNCHANGED <<variant, clock, disk_vars, match_vars>>
             ELSE IF key = "q"
             THEN /\ pc' = "menu"
                  /\ RunFinally
                  /\ last_exit' = ExitRecord("quit", FALSE, TRUE, TRUE, TRUE)
                  /\ UNCHANGED <<variant, clock, disk_vars, store_vars, cur_name, last_add,
                                 last_enroll, match_vars>>
             ELSE /\ windows' = TRUE
                  /\ led' = st.led
                  /\ buzzer' = st.buzzer
                  /\ UNCHANGED <<variant, pc, clock, disk_vars, store_vars, gpio_setup,
                                 camera, cur_name, last_add, last_enroll, last_exit,
                                 match_vars>>

-----------------------------------------------------------------------------
(* add_employee, embedding variant: main.py 169-216 *)

\* lines 172-176
AddStartE(name) ==
    /\ variant = "embedding"
    /\ pc = "menu"
    /\ Len(known_face_names) < MaxKnown
    /\ pc' = "add"
    /\ cur_name' = name
    /\ camera' = "open"
    /\ last_add' = "None"
    /\ last_frame' = NoFrame
    /\ last_exit' = NoExit
    /\ UNCHANGED <<variant, clock, attendance_log, disk_vars, store_vars, gpio_vars,
                   windows, last_enroll, match_vars>>

\* lines 181-184: ret = False: break, then finally
AddCaptureFailureE ==
    /\ variant = "embedding"
    /\ pc = "add"
    /\ pc' = "menu"
    /\ AddFinally
    /\ cur_name' = NoName
    /\ last_add' = "None"
    /\ UNCHANGED <<variant, clock, attendance_log, disk_vars, store_vars, gpio_vars,
                   last_frame, last_enroll, last_exit, match_vars>>

\* lines 191-208, key 'c': the frame is written to <name>.jpg, read back
\* and encoded; with a face the template is appended to the lists, without
\* one the file is removed and the loop goes on
capture_embedding(db, encodings, names, name, frame) ==
    LET filename == File(name, "jpg")
        written == imwrite(db, filename, frame)
        face_encodings == written[filename]
    IN IF Len(face_encodings) > 0
       THEN [database |-> written,
             encodings |-> Append(encodings, face_encodings[1]),
             names |-> Append(names, name),
             outcome |-> "Success"]
       ELSE [database |-> remove(written, filename),
             encodings |-> encodings, names |-> names,
             outcome |-> "NoFaceDetected"]

\* lines 181-212 with a frame delivered
AddFrameE(frame, key) ==
    /\ variant = "embedding"
    /\ pc = "add"
    /\ IF key = "c"
       THEN LET c == capture_embedding(database, known_face_encodings,
                                       known_face_names, cur_name, frame)
            IN /\ database' = c.database
               /\ known_face_encodings' = c.encodings
               /\ known_face_names' = c.names
               /\ last_add' = IF c.outcome = "Success" THEN "None" ELSE c.outcome
               /\ IF c.outcome = "Success"
                  THEN /\ pc' = "menu"
                       /\ AddFinally
                       /\ cur_name' = NoName
                       /\ last_enroll' = [name |-> cur_name, face |-> frame[1]]
                  ELSE /\ windows' = TRUE
                       /\ UNCHANGED <<pc, camera, cur_name, last_enroll>>
       ELSE IF key = "q"
       THEN /\ pc' = "menu"
            /\ AddFinally
            /\ cur_name' = NoName
            /\ last_add' = "None"
            /\ UNCHANGED <<database, known_face_encodings, known_face_names, last_enroll>>
       ELSE /\ windows' = TRUE
            /\ UNCHANGED <<pc, camera, cur_name, database, known_face_encodings,
                           known_face_names, last_add, last_enroll>>
    /\ UNCHANGED <<variant, clock, attendance_log, employee_ids, recognizer, model_file,
                   id_map_file, gpio_vars, last_frame, last_exit, match_vars>>

-----------------------------------------------------------------------------
(* add_employee, trained-classifier variant: main2.py 232-288 *)

\* lines 235-242
AddStartL(name) ==
    /\ variant = "lbph"
    /\ pc = "menu"
    /\ Cardinality((DOMAIN database) \cup {File(name, "jpg")}) <= MaxKnown
    /\ pc' = "add"
    /\ cur_name' = name
    /\ camera' = "open"
    /\ last_add' = "None"
    /\ last_frame' = NoFrame
    /\ last_exit' = NoExit
    /\ UNCHANGED <<variant, clock, attendance_log, disk_vars, store_vars, gpio_vars,
                   windows, last_enroll, match_vars>>

\* lines 235-238 raise, outside the try block: the process ends
AddStartFailL ==
    /\ variant = "lbph"
    /\ pc = "menu"
    /\ ProcessEnds
    /\ last_frame' = NoFrame
    /\ last_exit' = NoExit
    /\ UNCHANGED <<variant, clock, attendance_log, disk_vars, gpio_vars, match_vars>>

\* line 247: picam2.capture_array() raises: finally, then the process ends
AddCaptureFailureL ==
    /\ variant = "lbph"
    /\ pc = "add"
    /\ ProcessEnds
    /\ UNCHANGED <<variant, clock, attendance_log, disk_vars, gpio_vars, last_frame,
                   last_exit, match_vars>>

\* lines 247-284 with a frame delivered: on 'c' with a face detected in
\* the frame the image is written and the model retrained
AddFrameL(frame, key) ==
    /\ variant = "lbph"
    /\ pc = "add"
    /\ IF key = "c" /\ Len(frame) > 0
       THEN LET written == imwrite(database, File(cur_name, "jpg"), frame)
            IN \E order \in listdir(written) :
                  LET m == train_model(written, order, recognizer, model_file)
                  IN /\ database' = written
                     /\ employee_ids' = m.employee_ids
                     /\ recognizer' = m.recognizer
                     /\ model_file' = m.model_file
                     /\ id_map_file' = m.id_map_file
                     /\ last_add' = "None"
                     /\ last_enroll' = [name |-> cur_name, face |-> frame[1]]
                     /\ pc' = "menu"
                     /\ AddFinally
                     /\ cur_name' = NoName
       ELSE IF key = "c"
       THEN /\ last_add' = "NoFaceDetected"
            /\ windows' = TRUE
            /\ UNCHANGED <<pc, camera, cur_name, disk_vars, employee_ids, recognizer,
                           last_enroll>>
       ELSE IF key = "q"
       THEN /\ pc' = "menu"
            /\ AddFinally
            /\ cur_name' = NoName
            /\ last_add' = "None"
            /\ UNCHANGED <<disk_vars, employee_ids, recognizer, last_enroll>>
       ELSE /\ windows' = TRUE
            /\ UNCHANGED <<pc, camera, cur_name, disk_vars, employee_ids, recognizer,
                           last_add, last_enroll>>
    /\ UNCHANGED <<variant, clock, attendance_log, known_face_encodings,
                   known_face_names, gpio_vars, last_frame, last_exit, match_vars>>

\* menu choice Retrain Model (main2.py 317-318)
Retrain ==
    /\ variant = "lbph"
    /\ pc = "menu"
    /\ \E order \in listdir(database) :
          LET m == train_model(database, order, recognizer, model_file)
          IN /\ employee_ids' = m.employee_ids
             /\ recognizer' = m.recognizer
             /\ model_file' = m.model_file
             /\ id_map_file' = m.id_map_file
    /\ last_frame' = NoFrame
    /\ last_exit' = NoExit
    /\ UNCHANGED <<variant, pc, clock, attendance_log, database, known_face_encodings,
                   known_face_names, gpio_vars, camera, windows, cur_name, last_add,
                   last_enroll, match_vars>>

-----------------------------------------------------------------------------
(* The program *)

Next ==
    \/ Tick
    \/ Construct
    \/ Exit
    \/ RunStartE
    \/ RunCaptureFailureE
    \/ \E frame \in Frames, key \in {"q", "other"} : RunFrameE(frame, key)
    \/ RunStartL
    \/ \E at \in {"Picamera2", "start"} : RunStartFailL(at)
    \/ RunCaptureFailureL
    \/ \E frame \in Frames, key \in {"q", "other"} : RunFrameL(frame, key)
    \/ \E name \in Names : AddStartE(name)
    \/ AddCaptureFailureE
    \/ \E frame \in Frames, key \in Keys : AddFrameE(frame, key)
    \/ \E name \in Names : AddStartL(name)
    \/ AddStartFailL
    \/ AddCaptureFailureL
    \/ \E frame \in Frames, key \in Keys : AddFrameL(frame, key)
    \/ Retrain

Spec == Init /\ [][Next]_vars

-----------------------------------------------------------------------------
(* The embedding matcher on its own: every store of up to MaxEnrolled       *)
(* templates and every query                                               *)

Descriptors == {0, 30, 60, 120}

Queries ==
    UNION { { [encodings |-> e, names |-> n, q |-> q] :
                e \in [1..k -> Descriptors], n \in [1..k -> Names], q \in Descriptors }
            : k \in 0..MaxEnrolled }

InitMatch ==
    /\ variant = "embedding"
    /\ pc = "off"
    /\ clock = 0
    /\ attendance_log = NoFile
    /\ database = <<>>
    /\ known_face_encodings = <<>>
    /\ known_face_names = <<>>
    /\ employee_ids = <<>>
    /\ recognizer = <<>>
    /\ model_file = NoFile
    /\ id_map_file = NoFile
    /\ gpio_setup = FALSE
    /\ led = LOW
    /\ buzzer = LOW
    /\ camera = "none"
    /\ windows = FALSE
    /\ cur_name = NoName
    /\ last_frame = NoFrame
    /\ last_add = "None"
    /\ last_enroll = NoEnroll
    /\ last_exit = NoExit
    /\ match_in \in Queries
    /\ match_out = NoMatch

MatchStep ==
    /\ match_out = NoMatch
    /\ match_out' = match_face(match_in.encodings, match_in.names, match_in.q)
    /\ UNCHANGED <<variant, pc, clock, attendance_log, disk_vars, store_vars, gpio_vars,
                   camera, windows, cur_name, observers, match_in>>

SpecMatch == InitMatch /\ [][MatchStep]_vars

-----------------------------------------------------------------------------
(* Properties *)

\* the names a record of the log can carry
LedgerNames == Names \cup {DoeJ, Unknown}

\* the rows among the first n of the log that are the record of (name, date)
RecordsOf(name, date_str, n) ==
    {i \in 1..n : \E t \in 0..MaxClock :
        attendance_log.rows[i] = writerow(<<name, date_str, strftime_time(t)>>)}

AllRecordsOf(name, date_str) == RecordsOf(name, date_str, Len(attendance_log.rows))

Calls == {last_frame.calls[i] : i \in 1..Len(last_frame.calls)}

\* a record of (c.name, c.date) was in the log when the call c was made
HadRecord(c) == RecordsOf(c.name, c.date, c.rows_before) # {}

\* C1: the attendance log holds at most one record for each (name, date)
\* pair, and a mark_attendance call made while the record of its name and
\* day exists returns AlreadyMarkedToday and appends nothing.
C1_OneRecordPerNameDate ==
    /\ \A name \in LedgerNames, t \in 0..MaxClock :
          Cardinality(AllRecordsOf(name, strftime_date(t))) <= 1
    /\ \A c \in Calls :
          HadRecord(c) => c.ret = "AlreadyMarkedToday" /\ c.appended = <<>>

\* C2: mark_attendance returns AlreadyMarkedToday only if a record with
\* exactly that name and today's date exists; without one it returns Marked
\* and appends the record of the name.
C2_ExactMatch ==
    \A c \in Calls :
        /\ c.ret = "AlreadyMarkedToday" => HadRecord(c)
        /\ ~HadRecord(c) =>
              /\ c.ret = "Marked"
              /\ c.appended = <<writerow(<<c.name, c.date, c.time>>)>>

\* C3: a capture attempt of add_employee whose image has no face leaves
\* the store in memory and the persisted files as they were, and retrains
\* nothing.
C3_NoFaceChangesNothing ==
    [][(pc = "add" /\ last_add' = "NoFaceDetected")
         => UNCHANGED <<database, known_face_encodings, known_face_names,
                        employee_ids, recognizer, model_file, id_map_file>>]_vars

\* C4: an iteration of the recognition loop that runs against an empty
\* store (no known encoding; an untrained recognizer) resolves every face
\* of the frame to no match, calls mark_attendance for none, appends no
\* row, lets no error leave the loop, and the loop goes on to its next
\* frame unless the user quits.
C4_EmptyStoreNoMatch ==
    (last_frame.empty_store /\ last_frame.faces # <<>>) =>
        /\ Len(last_frame.resolved) = Len(last_frame.faces)
        /\ \A i \in 1..Len(last_frame.resolved) :
              last_frame.resolved[i] \in {Unknown, NoName}
        /\ last_frame.calls = <<>>
        /\ last_frame.appended = 0
        /\ last_frame.after \in {"next_frame", "quit"}
        /\ last_frame.after = "next_frame" => pc = "run"
        /\ last_frame.after = "quit" => pc = "menu"

\* an untrained recognizer was asked about a face, and the loop goes on
C4_Witness ==
    /\ variant = "lbph"
    /\ last_frame.empty_store
    /\ last_frame.faces # <<>>
    /\ last_frame.resolved = <<NoName>>
    /\ pc = "run"

\* the distance of the query of match_in to its template i
QueryDistance(i) ==
    IF match_in.encodings[i] >= match_in.q
    THEN match_in.encodings[i] - match_in.q
    ELSE match_in.q - match_in.encodings[i]

Templates == 1..Len(match_in.encodings)

\* i is the first template at the minimum distance
FirstNearest(i) ==
    /\ \A j \in Templates : QueryDistance(i) <= QueryDistance(j)
    /\ \A j \in Templates : j < i => QueryDistance(j) > QueryDistance(i)

\* C5, as stated: the matcher returns the first template at the minimum
\* distance if that distance is below the tolerance, and Unknown otherwise;
\* of two templates below the tolerance the farther is never returned.
C5_BelowTolerance ==
    match_out # NoMatch =>
        /\ IF \E i \in Templates : QueryDistance(i) < Tolerance
           THEN /\ match_out.index \in Templates
                /\ FirstNearest(match_out.index)
                /\ match_out.name = match_in.names[match_out.index]
           ELSE match_out = [index |-> 0, name |-> Unknown]
        /\ \A a, b \in Templates :
              (/\ QueryDistance(a) < QueryDistance(b)
               /\ QueryDistance(a) < Tolerance
               /\ QueryDistance(b) < Tolerance) => match_out.index # b

\* C5, amended: the matcher returns the first template at the minimum
\* distance if that distance is at most the tolerance, and Unknown
\* otherwise; of two templates within the tolerance the farther is never
\* returned.
C5_WithinTolerance ==
    match_out # NoMatch =>
        /\ IF \E i \in Templates : QueryDistance(i) <= Tolerance
           THEN /\ match_out.index \in Templates
                /\ FirstNearest(match_out.index)
                /\ match_out.name = match_in.names[match_out.index]
           ELSE match_out = [index |-> 0, name |-> Unknown]
        /\ \A a, b \in Templates :
              (/\ QueryDistance(a) < QueryDistance(b)
               /\ QueryDistance(a) <= Tolerance
               /\ QueryDistance(b) <= Tolerance) => match_out.index # b

\* two templates of different names tie at the minimum distance, which is
\* the tolerance itself, a third is farther, and the first of the two is
\* returned
C5_Witness ==
    /\ match_out.index \in Templates
    /\ QueryDistance(match_out.index) = Tolerance
    /\ \E j \in Templates :
          /\ j > match_out.index
          /\ QueryDistance(j) = Tolerance
          /\ match_in.names[j] # match_out.name
    /\ \E j \in Templates : QueryDistance(j) > Tolerance

\* C6: a face recognized after the successful enrollment of the session
\* that captured it resolves to the enrolled name, and the log then holds
\* exactly one record of that name for the day.
C6_RoundTrip ==
    \A i \in 1..Len(last_frame.faces) :
        (last_enroll # NoEnroll /\ last_frame.faces[i] = last_enroll.face) =>
            /\ i <= Len(last_frame.resolved)
            /\ last_frame.resolved[i] = last_enroll.name
            /\ Cardinality(AllRecordsOf(last_enroll.name, last_frame.date)) = 1

\* C7: no name occurs twice in the store of the embedding variant.
C7_OneTemplatePerName ==
    \A i, j \in 1..Len(known_face_names) :
        known_face_names[i] = known_face_names[j] => i = j

\* every call of the last iteration either appended exactly its record and
\* returned Marked, or appended nothing and returned AlreadyMarkedToday
CallsAppendOrSkip ==
    \A c \in Calls :
        \/ /\ c.ret = "Marked"
           /\ c.appended = <<writerow(<<c.name, strftime_date(clock), strftime_time(clock)>>)>>
        \/ /\ c.ret = "AlreadyMarkedToday"
           /\ c.appended = <<>>

\* C8: every step leaves the log, header included, as a prefix of the new
\* log; the header is written only when the log did not exist; a
\* mark_attendance call appends exactly one record of the current date and
\* time and returns Marked, or appends nothing and returns
\* AlreadyMarkedToday.
C8_AppendOnly ==
    [][/\ attendance_log.exists =>
            /\ attendance_log'.exists
            /\ IsPrefix(attendance_log.rows, attendance_log'.rows)
       /\ (~attendance_log.exists /\ attendance_log'.exists) =>
            attendance_log'.rows = <<Header>>
       /\ \A i \in 2..Len(attendance_log'.rows) : attendance_log'.rows[i] # Header
       /\ (last_frame' # last_frame \/ attendance_log' # attendance_log) =>
            CallsAppendOrSkip']_vars

\* C9: however run() ended, the camera was released, the windows destroyed
\* and the GPIO lines cleaned up, and a capture failure raised nothing.
C9_ReleasedOnEveryExit ==
    last_exit # NoExit =>
        /\ last_exit.camera_released
        /\ last_exit.windows_destroyed
        /\ last_exit.gpio_cleaned
        /\ last_exit.cause = "capture_failure" => ~last_exit.raised

\* the writes drive the pin on and later off, and leave it off
Pulsed(pin, writes) ==
    \E i, j \in 1..Len(writes) :
        /\ i < j
        /\ writes[i] = [pin |-> pin, level |-> HIGH]
        /\ writes[j] = [pin |-> pin, level |-> LOW]
        /\ \A k \in (j + 1)..Len(writes) : writes[k].pin # pin

\* C10: a mark_attendance call that appended a record delivered a complete
\* pulse on both outputs, a call that returned AlreadyMarkedToday none, and
\* both outputs are off afterwards.
C10_PulsePerRecord ==
    /\ \A c \in Calls :
          /\ c.appended # <<>> => Pulsed("led", c.pulse) /\ Pulsed("buzzer", c.pulse)
          /\ c.ret = "AlreadyMarkedToday" => c.pulse = <<>>
    /\ led = LOW
    /\ buzzer = LOW

\* the label table of the running trained-classifier program
TableInUse == variant = "lbph" /\ pc # "off"

\* the table in memory is what train_model builds from the directory
TableFromTraining ==
    /\ TableInUse
    /\ \E order \in listdir(database) :
          employee_ids = train_model(database, order, recognizer, model_file).employee_ids

\* C11: the label table that train_model built maps no two labels to one
\* name, and its labels are the consecutive integers 1..k.
C11_InjectiveLabels ==
    TableFromTraining =>
        /\ \A i, j \in DOMAIN employee_ids : employee_ids[i] = employee_ids[j] => i = j
        /\ DOMAIN employee_ids = 1..Cardinality(DOMAIN employee_ids)

\* the labels a classifier was fitted on (none for an untrained recognizer
\* or a missing model file)
LabelsOf(samples) == {samples[i].label : i \in 1..Len(samples)}

\* the labels of the table persisted in models/employee_ids.csv
PersistedLabels == DOMAIN read_id_map(id_map_file.rows, <<>>)

\* C12: the labels of the table equal the labels the classifier was fitted
\* on, in memory and as persisted, so an employee without a detected face
\* is in neither and no earlier classifier stays next to a rebuilt table.
C12_TableMatchesClassifier ==
    TableInUse =>
        /\ DOMAIN employee_ids = LabelsOf(recognizer)
        /\ PersistedLabels = LabelsOf(model_file.rows)

\* the names of the employees in the Identity Store of the running program
StoreNames ==
    IF variant = "embedding"
    THEN {known_face_names[i] : i \in 1..Len(known_face_names)}
    ELSE {employee_ids[i] : i \in DOMAIN employee_ids}

\* C13: the recognition loop calls mark_attendance only with the name of an
\* employee of the Identity Store, and the log never holds a record whose
\* name is "Unknown".
C13_OnlyMatchedMarked ==
    /\ pc # "off" => \A c \in Calls : c.name \in StoreNames
    /\ \A t \in 0..MaxClock : AllRecordsOf(Unknown, strftime_date(t)) = {}

\* the (name, template) pairs of two parallel lists
PairsOf(names, encodings) == {<<names[i], encodings[i]>> : i \in 1..Len(names)}

\* what load_known_faces would load from the directory after a restart
\* (the pairs do not depend on the order of os.listdir)
PairsOnDisk ==
    LET order == CHOOSE o \in listdir(database) : TRUE
        loaded == load_known_faces(database, order, <<>>, <<>>)
    IN PairsOf(loaded.names, loaded.encodings)

\* C14: in the embedding variant the two lists in memory have one length
\* and hold exactly the (name, template) pairs that load_known_faces would
\* load from the persisted images.
C14_SessionRestartAgree ==
    (variant = "embedding" /\ pc # "off") =>
        /\ Len(known_face_names) = Len(known_face_encodings)
        /\ PairsOf(known_face_names, known_face_encodings) = PairsOnDisk

=============================================================================
